---- MODULE Spec2Model ----
(***************************************************************************)
(* The BQL result table of bql/table/table.go: the binding directory (bs,  *)
(* mbs), the row store (data), the ordering engine (stringLess, rowLess,   *)
(* Sort), the built-in accumulators and the group-by reduction (Reduce,    *)
(* fullGroupRangeReduce).                                                  *)
(*                                                                         *)
(* Strings are sequences of byte values, compared bytewise as Go compares  *)
(* them. A Row is a function from the binding names it carries to Cells.   *)
(* Two table objects are modelled; mbs is a Go map, a reference: `shared`  *)
(* says that both tables hold the same map object, as AppendTable leaves   *)
(* them. bs is modelled by value: a slice grown by append has spare        *)
(* capacity only from length 3 on, where it holds all of Names and no      *)
(* further name can be appended, so no append writes into a backing array  *)
(* two slice headers share.                                                *)
(***************************************************************************)
EXTENDS Integers, Sequences, FiniteSets, TLC

VARIABLES bs, mbs, shared, data, acc, last, pre, track, fed

vars == <<bs, mbs, shared, data, acc, last, pre, track, fed>>

\* ------------------------------------------------------------------ bounds

\* Rows a caller may add to one table with AddRow.
MaxRows == 1

\* Rows a table may hold after AppendTable or DotProduct.
MaxData == 4

\* Rows of the tables the ordering and reduction specifications start from.
MaxSortRows == 3

\* Rows of the tables the projection and cross product specifications start
\* from.
MaxInitRows == 2

\* Values handed to the accumulators and not yet dropped by a Reset.
MaxFed == 4

\* The rows a table may grow to: MaxData where calls are tracked, MaxRows in
\* the specification of the whole table, which tracks none.
RowCap == IF track THEN MaxData ELSE MaxRows

\* ----------------------------------------------------------------- strings

Tables == {1, 2}

Other(t) == 3 - t

\* No table: the nil *Table that AppendTable accepts.
NilTable == 0

Names == {"g", "v", "t"}

StrA == <<97>>

StrB == <<98>>

StrSpaceA == <<32, 97>>

StrAB == <<97, 98>>

StrEmpty == <<>>

StrNULL == <<60, 78, 85, 76, 76, 62>>

StrNil == <<60, 110, 105, 108, 62>>

IsSpace(ch) == ch \in {9, 10, 11, 12, 13, 32}

RECURSIVE TrimLeft(_)
TrimLeft(s) ==
    IF s = <<>> THEN <<>>
    ELSE IF IsSpace(Head(s)) THEN TrimLeft(Tail(s)) ELSE s

RECURSIVE TrimRight(_)
TrimRight(s) ==
    IF s = <<>> THEN <<>>
    ELSE IF IsSpace(s[Len(s)]) THEN TrimRight(SubSeq(s, 1, Len(s) - 1)) ELSE s

TrimSpace(s) == TrimRight(TrimLeft(s))

\* Go's s1 < s2 on strings: bytewise lexicographic.
RECURSIVE StrLess(_, _)
StrLess(s1, s2) ==
    IF s2 = <<>> THEN FALSE
    ELSE IF s1 = <<>> THEN TRUE
    ELSE IF Head(s1) # Head(s2) THEN Head(s1) < Head(s2)
    ELSE StrLess(Tail(s1), Tail(s2))

RECURSIVE Digits(_)
Digits(n) ==
    IF n < 10 THEN <<48 + n>> ELSE Digits(n \div 10) \o <<48 + (n % 10)>>

RECURSIVE Zeros(_)
Zeros(k) == IF k <= 0 THEN <<>> ELSE <<48>> \o Zeros(k - 1)

\* The suffix "^^type:int64 of a rendered integer literal, with its quote.
Int64Suffix == <<34, 94, 94, 116, 121, 112, 101, 58, 105, 110, 116, 54, 52>>

\* The suffix "^^type:text of a rendered text literal, with its quote.
TextSuffix == <<34, 94, 94, 116, 121, 112, 101, 58, 116, 101, 120, 116>>

\* ------------------------------------------------------------------- cells

\* A Cell with S set, with L set to an int64 literal, with L set to a text
\* literal, and the Cell with no field set.
CellS(s) == [kind |-> "S", str |-> s, num |-> 0]

CellInt(n) == [kind |-> "L", str |-> <<>>, num |-> n]

CellText(s) == [kind |-> "L", str |-> s, num |-> -1]

CellNull == [kind |-> "NULL", str |-> <<>>, num |-> 0]

IsIntLiteral(c) == c.kind = "L" /\ c.num >= 0

LiteralString(c) ==
    IF IsIntLiteral(c) THEN <<34>> \o Digits(c.num) \o Int64Suffix
    ELSE <<34>> \o c.str \o TextSuffix

ToComparableString(c) ==
    IF IsIntLiteral(c)
    THEN <<34>> \o Zeros(32 - Len(Digits(c.num))) \o Digits(c.num) \o Int64Suffix
    ELSE LiteralString(c)

CellString(c) ==
    IF c.kind = "S" THEN c.str
    ELSE IF c.kind = "L" THEN LiteralString(c)
    ELSE StrNULL

\* -------------------------------------------------------------------- rows

EmptyRow == <<>>

Carries(r, b) == b \in DOMAIN r

Row1(b, c) == [x \in {b} |-> c]

Row2(b1, c1, b2, c2) == [x \in {b1, b2} |-> IF x = b1 THEN c1 ELSE c2]

\* MergeRows([]Row{r1, r2}): the later row wins a name both carry.
MergeRows(r1, r2) ==
    [k \in (DOMAIN r1) \cup (DOMAIN r2) |-> IF k \in DOMAIN r2 THEN r2[k] ELSE r1[k]]

\* --------------------------------------------------------------- sequences

SeqSet(s) == {s[i] : i \in 1..Len(s)}

NoDup(s) == \A i, j \in 1..Len(s) : i # j => s[i] # s[j]

\* The sequences over S of length at most n.
RECURSIVE SeqsUpTo(_, _)
SeqsUpTo(S, n) ==
    IF n = 0 THEN {<<>>}
    ELSE LET shorter == SeqsUpTo(S, n - 1)
         IN  shorter \cup {Append(s, x) : s \in {q \in shorter : Len(q) = n - 1}, x \in S}

\* The orders in which a map with key set S may be iterated.
Perms(S) == {s \in SeqsUpTo(S, Cardinality(S)) : Len(s) = Cardinality(S) /\ SeqSet(s) = S}

\* ------------------------------------------------------- call bookkeeping

\* The state of both tables, as kept in pre for the call that ran last.
Snapshot == [bs |-> bs, mbs |-> mbs, data |-> data]

\* The record of a call: the operation, its receiver, its outcome ("ok": it
\* returned, with a nil error if it returns one; "error": it returned an
\* error; "panic": a run-time panic unwound it; "fatal": log.Fatalf ended the
\* process) and its arguments; mid holds the rows as the Sort inside Reduce
\* left them and ranges the ranges of mid that Reduce folded, in order. For
\* a call on an accumulator, id is the accumulator and ret the value
\* Accumulate returned.
NoCall ==
    [op |-> "none", t |-> 1, res |-> "ok", names |-> <<>>, other |-> 0,
     n |-> 0, cfg |-> <<>>, aaps |-> <<>>, row |-> <<>>, mid |-> <<>>,
     ranges |-> <<>>, id |-> "nil", ret |-> 0]

\* The calls a caller made on each accumulator itself: the values handed to
\* Accumulate since the last Reset, or since construction, and whether a
\* Reset came after a value was accumulated. The folds inside Reduce are not
\* recorded here.
NoFed == [since |-> [id \in {"sum", "count", "distinct"} |-> <<>>],
          again |-> [id \in {"sum", "count", "distinct"} |-> FALSE]]

Call(op, t, res) == [NoCall EXCEPT !.op = op, !.t = t, !.res = res]

\* What last and pre keep of a call: all of it where track is set, and only
\* the outcome where it is not.
Log(c) == IF track THEN c ELSE [NoCall EXCEPT !.res = c.res]

Before == IF track THEN Snapshot ELSE pre

\* A panic or log.Fatalf ends the process: nothing runs after it.
Alive == last.res \in {"ok", "error"}

\* ------------------------------------------------------ binding directory

\* The table object New builds: the caller's list, its set, no rows.
NewTable(names) == [bs |-> names, mbs |-> SeqSet(names)]

\* New fails when the map built from the list is shorter than the list.
NewFails(names) == Cardinality(SeqSet(names)) # Len(names)

\* The loop of AddBindings over names, from list b and map m.
RECURSIVE addBindings(_, _, _)
addBindings(b, m, names) ==
    IF names = <<>> THEN [bs |-> b, mbs |-> m]
    ELSE IF Head(names) \notin m
         THEN addBindings(Append(b, Head(names)), m \cup {Head(names)}, Tail(names))
         ELSE addBindings(b, m, Tail(names))

\* The accessors.
HasBinding(t, b) == b \in mbs[t]

Bindings(t) == bs[t]

NumRows(t) == Len(data[t])

\* mbs after a write through table t's map: the other table sees it when
\* both hold the same map object.
MbsWrite(t, m) == [x \in Tables |-> IF x = t \/ shared THEN m ELSE mbs[x]]

\* ProjectBindings returns nil at once on a table with no row or no binding.
projectSkips(t) == Len(data[t]) = 0 \/ Cardinality(mbs[t]) = 0

\* The first requested name that is no binding makes ProjectBindings fail.
projectFails(t, names) == \E i \in 1..Len(names) : ~HasBinding(t, names[i])

equalBindings(b1, b2) ==
    /\ Cardinality(b1) = Cardinality(b2)
    /\ \A k \in b1 : k \in b2

disjointBinding(b1, b2) == \A k \in b1 : k \notin b2

\* ----------------------------------------------------------------- actions

New(t, names) ==
    /\ Alive
    /\ pre' = Before
    /\ UNCHANGED <<track, fed>>
    /\ IF NewFails(names)
       THEN /\ last' = Log([Call("New", t, "error") EXCEPT !.names = names])
            /\ UNCHANGED <<bs, mbs, shared, data, acc>>
       ELSE /\ bs' = [bs EXCEPT ![t] = NewTable(names).bs]
            /\ mbs' = [mbs EXCEPT ![t] = NewTable(names).mbs]
            /\ shared' = FALSE
            /\ data' = [data EXCEPT ![t] = <<>>]
            /\ last' = Log([Call("New", t, "ok") EXCEPT !.names = names])
            /\ UNCHANGED acc

AddRow(t, r) ==
    /\ Alive
    /\ Len(data[t]) < MaxRows
    /\ pre' = Before
    /\ UNCHANGED <<track, fed>>
    /\ data' = [data EXCEPT ![t] = IF DOMAIN r # {} THEN Append(@, r) ELSE @]
    /\ last' = Log([Call("AddRow", t, "ok") EXCEPT !.row = r])
    /\ UNCHANGED <<bs, mbs, shared, acc>>

AddBindings(t, names) ==
    /\ Alive
    /\ pre' = Before
    /\ UNCHANGED <<track, fed>>
    /\ bs' = [bs EXCEPT ![t] = addBindings(bs[t], mbs[t], names).bs]
    /\ mbs' = MbsWrite(t, addBindings(bs[t], mbs[t], names).mbs)
    /\ last' = Log([Call("AddBindings", t, "ok") EXCEPT !.names = names])
    /\ UNCHANGED <<shared, data, acc>>

ProjectBindings(t, names) ==
    /\ Alive
    /\ pre' = Before
    /\ UNCHANGED <<track, fed>>
    /\ IF projectSkips(t)
       THEN /\ last' = Log([Call("ProjectBindings", t, "ok") EXCEPT !.names = names])
            /\ UNCHANGED <<bs, mbs, shared, data, acc>>
       ELSE IF projectFails(t, names)
       THEN /\ last' = Log([Call("ProjectBindings", t, "error") EXCEPT !.names = names])
            /\ UNCHANGED <<bs, mbs, shared, data, acc>>
       ELSE /\ bs' = [bs EXCEPT ![t] = addBindings(<<>>, {}, names).bs]
            /\ mbs' = [mbs EXCEPT ![t] = addBindings(<<>>, {}, names).mbs]
            /\ shared' = FALSE
            /\ last' = Log([Call("ProjectBindings", t, "ok") EXCEPT !.names = names])
            /\ UNCHANGED <<data, acc>>

AppendTable(t, t2) ==
    /\ Alive
    /\ pre' = Before
    /\ UNCHANGED <<track, fed>>
    /\ IF t2 = NilTable
       THEN /\ last' = Log([Call("AppendTable", t, "ok") EXCEPT !.other = t2])
            /\ UNCHANGED <<bs, mbs, shared, data, acc>>
       ELSE IF Len(Bindings(t)) > 0 /\ ~equalBindings(mbs[t], mbs[t2])
       THEN /\ last' = Log([Call("AppendTable", t, "error") EXCEPT !.other = t2])
            /\ UNCHANGED <<bs, mbs, shared, data, acc>>
       ELSE /\ Len(data[t]) + Len(data[t2]) <= RowCap
            /\ bs' = IF Len(Bindings(t)) = 0 THEN [bs EXCEPT ![t] = bs[t2]] ELSE bs
            /\ mbs' = IF Len(Bindings(t)) = 0 THEN [mbs EXCEPT ![t] = mbs[t2]] ELSE mbs
            /\ shared' = IF Len(Bindings(t)) = 0 /\ t2 # t THEN TRUE ELSE shared
            /\ data' = [data EXCEPT ![t] = @ \o data[t2]]
            /\ last' = Log([Call("AppendTable", t, "ok") EXCEPT !.other = t2])
            /\ UNCHANGED acc

\* --------------------------------------------------------- ordering engine

\* A SortConfig is a sequence of [Binding, Desc]; the empty sequence is the
\* nil SortConfig. An empty SortConfig that is not nil is not an input here.
Asc(b) == [Binding |-> b, Desc |-> FALSE]

Desc(b) == [Binding |-> b, Desc |-> TRUE]

stringLess(rsi, rsj, desc) ==
    LET si == TrimSpace(rsi)
        sj == TrimSpace(rsj)
        b  == IF StrLess(si, sj) THEN -1 ELSE 1
    IN  IF (si = <<>> /\ sj = <<>>) \/ si = sj THEN 0
        ELSE IF desc THEN -b ELSE b

\* The strings rowLess compares for two cells: those of the variant both
\* cells hold, and two empty strings when they hold different variants or
\* one holds none.
compareStrings(ci, cj) ==
    IF ci.kind = "S" /\ cj.kind = "S" THEN <<ci.str, cj.str>>
    ELSE IF ci.kind = "L" /\ cj.kind = "L"
         THEN <<ToComparableString(ci), ToComparableString(cj)>>
         ELSE <<StrEmpty, StrEmpty>>

\* rowLess: "lt" for true, "ge" for false, "fatal" when log.Fatalf ends the
\* process on a row that does not carry the binding.
RECURSIVE rowLess(_, _, _)
rowLess(ri, rj, c) ==
    IF c = <<>> THEN "ge"
    ELSE LET cfg  == c[1]
             isLast == Len(c) = 1
         IN  IF ~Carries(ri, cfg.Binding) \/ ~Carries(rj, cfg.Binding) THEN "fatal"
             ELSE LET ss == compareStrings(ri[cfg.Binding], rj[cfg.Binding])
                      l  == stringLess(ss[1], ss[2], cfg.Desc)
                  IN  IF l < 0 THEN "lt"
                      ELSE IF l > 0 \/ isLast THEN "ge"
                      ELSE rowLess(ri, rj, Tail(c))

\* bySortConfig.Swap.
Swap(rows, i, j) == [rows EXCEPT ![i] = rows[j], ![j] = rows[i]]

\* The inner loop of the insertion sort sort.Sort runs on a slice of at most
\* 6 elements: the element at j moves down while Less(j, j-1).
RECURSIVE insertDown(_, _, _)
insertDown(rows, j, cfg) ==
    IF j <= 1 THEN [rows |-> rows, fatal |-> FALSE]
    ELSE LET l == rowLess(rows[j], rows[j - 1], cfg)
         IN  IF l = "fatal" THEN [rows |-> rows, fatal |-> TRUE]
             ELSE IF l = "lt" THEN insertDown(Swap(rows, j, j - 1), j - 1, cfg)
             ELSE [rows |-> rows, fatal |-> FALSE]

RECURSIVE insertionSort(_, _, _)
insertionSort(rows, i, cfg) ==
    IF i > Len(rows) THEN [rows |-> rows, fatal |-> FALSE]
    ELSE LET s == insertDown(rows, i, cfg)
         IN  IF s.fatal THEN s ELSE insertionSort(s.rows, i + 1, cfg)

\* Table.Sort on the rows: nothing for the nil SortConfig.
sortRows(rows, cfg) ==
    IF cfg = <<>> THEN [rows |-> rows, fatal |-> FALSE]
    ELSE insertionSort(rows, 2, cfg)

Sort(t, cfg) ==
    /\ Alive
    /\ pre' = Before
    /\ UNCHANGED <<track, fed>>
    /\ data' = [data EXCEPT ![t] = sortRows(data[t], cfg).rows]
    /\ last' = Log([Call("Sort", t, IF sortRows(data[t], cfg).fatal THEN "fatal" ELSE "ok")
                  EXCEPT !.cfg = cfg])
    /\ UNCHANGED <<bs, mbs, shared, acc>>

\* ------------------------------------------------------------ accumulators

\* The accumulator objects: one sumInt64, one countAcc, one countDistinctAcc.
\* A sumFloat64 differs from sumInt64 only in the coercion it asks of the
\* literal and is not modelled.
AccIds == {"sum", "count", "distinct"}

\* No accumulator: the nil Acc of an AliasAccPair.
NoAcc == "nil"

\* The value handed to Accumulate as interface{}: its dynamic type, whether
\* the pointer is nil, and the cell or literal it points to.
CellValue(r, b) ==
    IF Carries(r, b) THEN [dyn |-> "Cell", isNil |-> FALSE, cell |-> r[b]]
    ELSE [dyn |-> "Cell", isNil |-> TRUE, cell |-> CellNull]

LiteralValue(c) == [dyn |-> "Literal", isNil |-> FALSE, cell |-> c]

\* fmt.Sprintf("%v", v): the String method of what v points to, and <nil>
\* for a nil pointer.
Sprintf(v) ==
    IF v.isNil THEN StrNil
    ELSE IF v.dyn = "Cell" THEN CellString(v.cell)
    ELSE LiteralString(v.cell)

NewSumInt64LiteralAccumulator(s0) ==
    [initialState |-> s0, state |-> s0, seen |-> <<>>]

NewCountAccumulator == [initialState |-> 0, state |-> 0, seen |-> <<>>]

NewCountDistinctAccumulator == [initialState |-> 0, state |-> 0, seen |-> <<>>]

\* A Reset that leaves the state as it is.
ResetKeeps(id, a) == a

\* Reset of accumulator object id in state a.
Reset(id, a) ==
    IF id = "sum" THEN [a EXCEPT !.state = a.initialState]
    ELSE IF id = "count" THEN [a EXCEPT !.state = 0]
    ELSE [a EXCEPT !.seen = <<>>]

\* c.state[vs]++ on the map of a countDistinctAcc.
seenAdd(m, vs) ==
    [k \in (DOMAIN m) \cup {vs} |->
        IF k \in DOMAIN m THEN (IF k = vs THEN m[k] + 1 ELSE m[k]) ELSE 1]

\* Accumulate of accumulator object id in state a on value v: the new state,
\* the value returned and the outcome. sumInt64 asserts that v is a
\* *literal.Literal and panics on any other dynamic type; Int64() fails on a
\* literal that is no int64.
Accumulate(id, a, v) ==
    IF id = "sum"
    THEN IF v.dyn # "Literal" THEN [acc |-> a, val |-> a.state, res |-> "panic"]
         ELSE IF ~IsIntLiteral(v.cell) THEN [acc |-> a, val |-> a.state, res |-> "error"]
         ELSE [acc |-> [a EXCEPT !.state = a.state + v.cell.num],
               val |-> a.state + v.cell.num, res |-> "ok"]
    ELSE IF id = "count"
    THEN [acc |-> [a EXCEPT !.state = a.state + 1], val |-> a.state + 1, res |-> "ok"]
    ELSE [acc |-> [a EXCEPT !.seen = seenAdd(a.seen, Sprintf(v))],
          val |-> Cardinality(DOMAIN seenAdd(a.seen, Sprintf(v))), res |-> "ok"]

\* ---------------------------------------------------------------- reduction

Pair(in, out, a) == [InAlias |-> in, OutAlias |-> out, Acc |-> a]

\* toMap: the pairs left in the nested map, where a later pair replaces an
\* earlier one with the same input and output alias.
toMap(aaps) ==
    {aaps[i] : i \in {k \in 1..Len(aaps) :
        ~\E j \in (k + 1)..Len(aaps) :
            aaps[j].InAlias = aaps[k].InAlias /\ aaps[j].OutAlias = aaps[k].OutAlias}}

\* The keys of the outer map.
InAliases(maaps) == {p.InAlias : p \in maaps}

\* The input validation of Reduce: TRUE when it returns an error.
reduceInvalid(t, maaps) ==
    \/ Len(bs[t]) # Cardinality(InAliases(maaps))
    \/ \E i \in 1..Len(bs[t]) : bs[t][i] \notin InAliases(maaps)
    \/ \E b \in InAliases(maaps) : b \notin mbs[t]

\* The accumulator of one pair folded over the rows rng from state a, after
\* its Reset: the state, the last value returned and the outcome.
RECURSIVE accumulateRange(_, _, _, _)
accumulateRange(p, a, rng, val) ==
    IF rng = <<>> THEN [acc |-> a, val |-> val, res |-> "ok"]
    ELSE LET r == Accumulate(p.Acc, a, CellValue(Head(rng), p.InAlias))
         IN  IF r.res # "ok" THEN r
             ELSE accumulateRange(p, r.acc, Tail(rng), r.val)

foldPair(p, accs, rng) == accumulateRange(p, Reset(p.Acc, accs[p.Acc]), rng, 0)

AccPairs(maaps) == {p \in maaps : p.Acc # NoAcc}

\* fullGroupRangeReduce on the rows rng (never empty here): the new row, the
\* accumulators and the outcome. The nested maps are walked in no fixed
\* order; the configurations used give every pair its own accumulator and
\* its own output alias, so the order does not show in the row. A sumInt64
\* panics on the first row, whatever the order; the accumulators are then
\* left as Reset left them.
outAliases(maaps, first) == {p.OutAlias : p \in {q \in maaps : Carries(first, q.InAlias)}}

pairOf(maaps, first, o) ==
    CHOOSE p \in maaps : p.OutAlias = o /\ Carries(first, p.InAlias)

fullGroupRangeReduce(rng, maaps, accs) ==
    LET reset == [id \in AccIds |->
                    IF \E p \in AccPairs(maaps) : p.Acc = id THEN Reset(id, accs[id])
                    ELSE accs[id]]
        folds == [p \in AccPairs(maaps) |-> foldPair(p, accs, rng)]
        after == [id \in AccIds |->
                    IF \E p \in AccPairs(maaps) : p.Acc = id
                    THEN folds[CHOOSE p \in AccPairs(maaps) : p.Acc = id].acc
                    ELSE accs[id]]
        first == rng[1]
        newRow == [o \in outAliases(maaps, first) |->
                    LET p == pairOf(maaps, first, o)
                    IN  IF p.Acc = NoAcc THEN first[p.InAlias]
                        ELSE CellInt(folds[p].val)]
    IN  IF \E p \in AccPairs(maaps) : folds[p].res = "panic"
        THEN [row |-> EmptyRow, acc |-> reset, res |-> "panic"]
        ELSE IF \E p \in AccPairs(maaps) : folds[p].res = "error"
        THEN [row |-> EmptyRow, acc |-> after, res |-> "error"]
        ELSE IF DOMAIN newRow = {}
        THEN [row |-> EmptyRow, acc |-> after, res |-> "error"]
        ELSE [row |-> newRow, acc |-> after, res |-> "ok"]

\* The closure id of Reduce: the concatenated renderings of the cells the
\* SortConfig names. r[c.Binding].String() on a row that does not carry the
\* binding dereferences a nil *Cell.
idPanics(r, cfg) == \E i \in 1..Len(cfg) : ~Carries(r, cfg[i].Binding)

RECURSIVE groupId(_, _)
groupId(r, cfg) ==
    IF cfg = <<>> THEN StrEmpty
    ELSE CellString(r[cfg[1].Binding]) \o groupId(r, Tail(cfg))

\* The loop of Reduce over the sorted rows from position idx, and the fold of
\* the last range after it. folded keeps, with every new row, the range of
\* rows that fullGroupRangeReduce was given for it.
Folded(f, lo, hi) == [row |-> f.row, lo |-> lo, hi |-> hi]

RECURSIVE reduceWalk(_, _, _, _, _, _, _, _)
reduceWalk(rows, idx, lastKey, lastIdx, folded, accs, cfg, maaps) ==
    IF idx > Len(rows)
    THEN LET f == fullGroupRangeReduce(SubSeq(rows, lastIdx, Len(rows)), maaps, accs)
         IN  [folded |-> IF f.res = "ok" THEN Append(folded, Folded(f, lastIdx, Len(rows)))
                         ELSE folded,
              acc |-> f.acc, res |-> f.res]
    ELSE IF idPanics(rows[idx], cfg)
    THEN [folded |-> folded, acc |-> accs, res |-> "panic"]
    ELSE LET current == groupId(rows[idx], cfg)
         IN  IF lastKey = StrEmpty
             THEN reduceWalk(rows, idx + 1, current, idx, folded, accs, cfg, maaps)
             ELSE IF lastKey = current
             THEN reduceWalk(rows, idx + 1, lastKey, lastIdx, folded, accs, cfg, maaps)
             ELSE LET f == fullGroupRangeReduce(SubSeq(rows, lastIdx, idx - 1), maaps, accs)
                  IN  IF f.res # "ok"
                      THEN [folded |-> folded, acc |-> f.acc, res |-> f.res]
                      ELSE reduceWalk(rows, idx + 1, current, idx,
                                      Append(folded, Folded(f, lastIdx, idx - 1)),
                                      f.acc, cfg, maaps)

newDataOf(folded) == [k \in 1..Len(folded) |-> folded[k].row]

rangesOf(folded) == [k \in 1..Len(folded) |-> <<folded[k].lo, folded[k].hi>>]

\* The binding list Reduce leaves: the output aliases in the order of the
\* pairs, each once.
RECURSIVE outBindings(_, _, _)
outBindings(aaps, b, m) ==
    IF aaps = <<>> THEN [bs |-> b, mbs |-> m]
    ELSE outBindings(Tail(aaps),
                     IF Head(aaps).OutAlias \notin m THEN Append(b, Head(aaps).OutAlias) ELSE b,
                     m \cup {Head(aaps).OutAlias})

Reduce(t, cfg, aaps) ==
    LET maaps  == toMap(aaps)
        sorted == sortRows(data[t], cfg)
        w      == reduceWalk(sorted.rows, 1, StrEmpty, 1, <<>>, acc, cfg, maaps)
        call   == [Call("Reduce", t, "ok") EXCEPT !.cfg = cfg, !.aaps = aaps]
    IN  /\ Alive
        /\ pre' = Before
        /\ UNCHANGED <<track, fed>>
        /\ IF reduceInvalid(t, maaps)
           THEN /\ last' = Log([call EXCEPT !.res = "error"])
                /\ UNCHANGED <<bs, mbs, shared, data, acc>>
           ELSE IF NumRows(t) = 0
           THEN /\ last' = Log(call)
                /\ UNCHANGED <<bs, mbs, shared, data, acc>>
           ELSE IF sorted.fatal
           THEN /\ data' = [data EXCEPT ![t] = sorted.rows]
                /\ last' = Log([call EXCEPT !.res = "fatal", !.mid = sorted.rows])
                /\ UNCHANGED <<bs, mbs, shared, acc>>
           ELSE IF w.res # "ok"
           THEN /\ data' = [data EXCEPT ![t] = sorted.rows]
                /\ acc' = w.acc
                /\ last' = Log([call EXCEPT !.res = w.res, !.mid = sorted.rows])
                /\ UNCHANGED <<bs, mbs, shared>>
           ELSE /\ bs' = [bs EXCEPT ![t] = outBindings(aaps, <<>>, {}).bs]
                /\ mbs' = [mbs EXCEPT ![t] = outBindings(aaps, <<>>, {}).mbs]
                /\ shared' = FALSE
                /\ data' = [data EXCEPT ![t] = newDataOf(w.folded)]
                /\ acc' = w.acc
                /\ last' = Log([call EXCEPT !.mid = sorted.rows, !.ranges = rangesOf(w.folded)])

\* ------------------------------------------------------------ composition

\* The rows DotProduct builds from td and the rows of another table: row
\* (i-1)*n2 + j is the merge of td[i] and d2[j].
crossRows(td, d2) ==
    [k \in 1..(Len(td) * Len(d2)) |->
        MergeRows(td[((k - 1) \div Len(d2)) + 1], d2[((k - 1) % Len(d2)) + 1])]

\* DotProduct of a table with itself ranges over t.data while it fills it:
\* the first row is merged into every slot, and the second row of td then
\* writes past the end of the slice.
selfCrossRows(td) == [k \in 1..(Len(td) * Len(td)) |-> td[1]]

DotProduct(t, t2) ==
    /\ Alive
    /\ pre' = Before
    /\ UNCHANGED <<track, fed>>
    /\ IF ~disjointBinding(mbs[t], mbs[t2])
       THEN /\ last' = Log([Call("DotProduct", t, "error") EXCEPT !.other = t2])
            /\ UNCHANGED <<bs, mbs, shared, data, acc>>
       ELSE /\ Len(data[t]) * Len(data[t2]) <= RowCap
            /\ mbs' = [mbs EXCEPT ![t] = mbs[t] \cup mbs[t2]]
            /\ shared' = FALSE
            /\ \E order \in Perms(mbs[t] \cup mbs[t2]) : bs' = [bs EXCEPT ![t] = order]
            /\ data' = [data EXCEPT ![t] = IF t2 = t THEN selfCrossRows(data[t])
                                           ELSE crossRows(data[t], data[t2])]
            /\ last' = Log([Call("DotProduct", t, IF t2 = t /\ Len(data[t]) > 1 THEN "panic" ELSE "ok")
                          EXCEPT !.other = t2])
            /\ UNCHANGED acc

\* makeslice panics on a negative length.
limitPanics(rows, i) == Len(rows) > i /\ i < 0

limitRows(rows, i) == IF Len(rows) > i /\ i >= 0 THEN SubSeq(rows, 1, i) ELSE rows

Limit(t, i) ==
    /\ Alive
    /\ pre' = Before
    /\ UNCHANGED <<track, fed>>
    /\ data' = [data EXCEPT ![t] = limitRows(data[t], i)]
    /\ last' = Log([Call("Limit", t, IF limitPanics(data[t], i) THEN "panic" ELSE "ok")
                  EXCEPT !.n = i])
    /\ UNCHANGED <<bs, mbs, shared, acc>>

\* A caller's own Accumulate and Reset on accumulator id. A panic of the
\* type assertion in sumInt64.Accumulate leaves the state as it was.
CallAccumulate(id, v) ==
    LET r == Accumulate(id, acc[id], v)
    IN  /\ Alive
        /\ Len(fed.since["sum"]) + Len(fed.since["count"])
              + Len(fed.since["distinct"]) < MaxFed
        /\ acc' = [acc EXCEPT ![id] = r.acc]
        /\ fed' = [fed EXCEPT !.since[id] = Append(@, v)]
        /\ last' = [Call("Accumulate", 1, r.res) EXCEPT !.id = id, !.ret = r.val]
        /\ UNCHANGED <<bs, mbs, shared, data, pre, track>>

CallReset(id) ==
    /\ Alive
    /\ acc' = [acc EXCEPT ![id] = Reset(id, acc[id])]
    /\ fed' = [fed EXCEPT !.since[id] = <<>>,
                          !.again[id] = @ \/ fed.since[id] # <<>>]
    /\ last' = [Call("Reset", 1, "ok") EXCEPT !.id = id]
    /\ UNCHANGED <<bs, mbs, shared, data, pre, track>>

\* ------------------------------------------------------------------ inputs

\* The binding lists handed to New, AddBindings and ProjectBindings.
BindingLists ==
    {<<>>, <<"g">>, <<"v">>, <<"t">>, <<"g", "v">>, <<"v", "g">>, <<"g", "g">>}

\* The rows handed to AddRow.
RowPool ==
    { EmptyRow,
      Row2("g", CellS(StrA), "v", CellS(StrA)),
      Row1("t", CellS(StrA)) }

\* The reductions run on the tables of Spec.
SpecCfgs == {<<>>, <<Asc("g")>>}

SpecPairs ==
    { <<Pair("g", "g", NoAcc)>>,
      <<Pair("g", "t", NoAcc), Pair("v", "g", NoAcc), Pair("v", "g", NoAcc)>>,
      <<Pair("g", "g", NoAcc), Pair("v", "v", "sum")>> }

\* ----------------------------------------------------------- specification

InitAcc ==
    [id \in AccIds |->
        IF id = "sum" THEN NewSumInt64LiteralAccumulator(0)
        ELSE IF id = "count" THEN NewCountAccumulator
        ELSE NewCountDistinctAccumulator]

Init ==
    /\ bs = [t \in Tables |-> <<>>]
    /\ mbs = [t \in Tables |-> {}]
    /\ shared = FALSE
    /\ data = [t \in Tables |-> <<>>]
    /\ acc = InitAcc
    /\ last = NoCall
    /\ pre = Snapshot
    /\ track = FALSE
    /\ fed = NoFed

Next ==
    \/ \E t \in Tables, names \in BindingLists : New(t, names)
    \/ \E t \in Tables, r \in RowPool : AddRow(t, r)
    \/ \E t \in Tables, names \in BindingLists : AddBindings(t, names)
    \/ \E t \in Tables, names \in BindingLists : ProjectBindings(t, names)
    \/ \E t \in Tables, t2 \in Tables \cup {NilTable} : AppendTable(t, t2)
    \/ \E t \in Tables, t2 \in Tables : DotProduct(t, t2)
    \/ \E t \in Tables, cfg \in SpecCfgs, aaps \in SpecPairs : Reduce(t, cfg, aaps)

Spec == Init /\ [][Next]_vars

\* ------------------------------------- specifications of single operations

\* The tables a specification starts from are tables New and AddRow build:
\* a duplicate-free binding list with its set, and rows in any order.
Drawn(bs1, data1, bs2, data2) ==
    /\ bs = <<bs1, bs2>>
    /\ mbs = <<SeqSet(bs1), SeqSet(bs2)>>
    /\ shared = FALSE
    /\ data = <<data1, data2>>
    /\ acc = InitAcc
    /\ last = NoCall
    /\ pre = [bs |-> <<bs1, bs2>>, mbs |-> <<SeqSet(bs1), SeqSet(bs2)>>,
              data |-> <<data1, data2>>]
    /\ track = TRUE
    /\ fed = NoFed

\* Two rows that carry exactly the names of a binding list.
ValidRows(names) ==
    {[b \in SeqSet(names) |-> c] : c \in {CellS(StrA), CellS(StrB)}} \ {EmptyRow}

\* Projection and growth of the bindings of one table.
ProjectInitBindings == {s \in SeqsUpTo(Names, 3) : NoDup(s)}

ProjectRows ==
    { Row2("g", CellS(StrA), "v", CellS(StrB)),
      MergeRows(Row2("g", CellS(StrB), "v", CellS(StrA)), Row1("t", CellS(StrA))) }

ProjectLists == SeqsUpTo(Names, 2) \cup {<<"g", "v", "t">>, <<"t", "v", "g">>}

InitProject ==
    \E b \in ProjectInitBindings, d \in SeqsUpTo(ProjectRows, MaxInitRows) :
        Drawn(b, d, <<>>, <<>>)

NextProject ==
    \/ \E names \in ProjectLists : ProjectBindings(1, names)
    \/ \E names \in ProjectLists : AddBindings(1, names)

SpecProject == InitProject /\ [][NextProject]_vars

\* The cross product of two tables, either of which may have been projected.
DotReceiverBindings == {<<>>, <<"g">>, <<"g", "v">>}

DotOtherBindings == {<<"t">>, <<"g">>, <<"t", "g">>}

InitDot ==
    \E b1 \in DotReceiverBindings, b2 \in DotOtherBindings :
        \E d1 \in SeqsUpTo(ValidRows(b1), MaxInitRows), d2 \in SeqsUpTo(ValidRows(b2), MaxInitRows) :
            Drawn(b1, d1, b2, d2)

DotLists == {<<>>, <<"g">>, <<"t">>}

NextDot ==
    \/ \E t \in Tables, names \in DotLists : ProjectBindings(t, names)
    \/ \E t \in Tables, t2 \in Tables : DotProduct(t, t2)

SpecDot == InitDot /\ [][NextDot]_vars

\* Sort and Limit on the rows of one table.
SortRows ==
    { Row2("g", CellInt(1), "v", CellInt(5)),
      Row2("g", CellInt(2), "v", CellInt(3)),
      Row2("g", CellInt(1), "v", CellInt(2)),
      Row2("g", CellS(StrB), "v", CellS(StrA)),
      Row2("g", CellS(StrA), "v", CellS(StrA)),
      Row2("g", CellNull, "v", CellS(StrB)),
      Row1("g", CellS(StrSpaceA)) }

SortCfgs ==
    { <<>>, <<Asc("g")>>, <<Desc("g")>>, <<Asc("g"), Asc("v")>>,
      <<Asc("g"), Desc("v")>>, <<Asc("v")>> }

InitSort ==
    \E d \in SeqsUpTo(SortRows, MaxSortRows) : Drawn(<<"g", "v">>, d, <<>>, <<>>)

NextSort ==
    \/ \E cfg \in SortCfgs : Sort(1, cfg)
    \/ \E i \in (-1)..(MaxSortRows + 1) : Limit(1, i)

SpecSort == InitSort /\ [][NextSort]_vars

\* Reduce on one table.
ReduceRows ==
    { Row2("g", CellInt(1), "v", CellInt(3)),
      Row2("g", CellInt(1), "v", CellInt(4)),
      Row2("g", CellInt(2), "v", CellInt(5)),
      Row2("g", CellS(StrEmpty), "v", CellInt(3)),
      Row2("g", CellS(StrA), "v", CellS(StrB)),
      Row1("g", CellS(StrB)),
      Row1("v", CellInt(3)) }

ReduceInitBindings == {<<"g", "v">>, <<"v">>}

ReduceCfgs == {<<>>, <<Asc("g")>>, <<Asc("g"), Asc("v")>>}

ReducePairs ==
    { <<Pair("g", "g", NoAcc), Pair("v", "t", "sum")>>,
      <<Pair("g", "g", NoAcc), Pair("v", "t", "count")>>,
      <<Pair("g", "g", NoAcc), Pair("v", "t", "distinct")>>,
      <<Pair("g", "g", NoAcc), Pair("t", "v", NoAcc)>>,
      <<Pair("v", "v", NoAcc)>>,
      <<Pair("v", "t", "count"), Pair("v", "v", NoAcc)>> }

InitReduce ==
    \E b \in ReduceInitBindings, d \in SeqsUpTo(ReduceRows, MaxSortRows) :
        Drawn(b, d, <<>>, <<>>)

NextReduce == \E cfg \in ReduceCfgs, aaps \in ReducePairs : Reduce(1, cfg, aaps)

SpecReduce == InitReduce /\ [][NextReduce]_vars

\* Reduce on a table of string cells that differ in surrounding white space
\* only, or not at all.
GroupRows ==
    { Row1("g", CellS(StrA)), Row1("g", CellS(StrSpaceA)), Row1("g", CellS(StrB)) }

GroupCfgs == {<<Asc("g")>>, <<Desc("g")>>}

GroupPairs == {<<Pair("g", "g", NoAcc)>>, <<Pair("g", "g", "count")>>}

InitGroup == \E d \in SeqsUpTo(GroupRows, MaxSortRows) : Drawn(<<"g">>, d, <<>>, <<>>)

NextGroup == \E cfg \in GroupCfgs, aaps \in GroupPairs : Reduce(1, cfg, aaps)

SpecGroup == InitGroup /\ [][NextGroup]_vars

\* The built-in accumulators on their own. The sum is built with a start
\* the caller picks and is fed literals, some of them no int64; count and
\* count-distinct take any value.
SumStarts == {0, 3}

SumValues == {LiteralValue(CellInt(1)), LiteralValue(CellInt(2)),
              LiteralValue(CellText(StrA))}

CountValues == {CellValue(Row1("g", CellS(StrA)), "g"), CellValue(EmptyRow, "g")}

DistinctValues ==
    { CellValue(Row1("g", CellS(StrA)), "g"),
      CellValue(Row1("g", CellS(StrB)), "g"),
      CellValue(Row1("g", CellS(StrAB)), "g"),
      CellValue(EmptyRow, "g") }

ValuesOf(id) ==
    IF id = "sum" THEN SumValues
    ELSE IF id = "count" THEN CountValues ELSE DistinctValues

InitAccumulators ==
    /\ bs = [t \in Tables |-> <<>>]
    /\ mbs = [t \in Tables |-> {}]
    /\ shared = FALSE
    /\ data = [t \in Tables |-> <<>>]
    /\ \E s0 \in SumStarts :
          acc = [InitAcc EXCEPT !["sum"] = NewSumInt64LiteralAccumulator(s0)]
    /\ last = NoCall
    /\ pre = Snapshot
    /\ track = TRUE
    /\ fed = NoFed

NextAccumulators ==
    \/ \E id \in AccIds : \E v \in ValuesOf(id) : CallAccumulate(id, v)
    \/ \E id \in AccIds : CallReset(id)

SpecAccumulators == InitAccumulators /\ [][NextAccumulators]_vars

\* ------------------------------------------------------------------ claims

\* C1: in every table, whatever sequence of New, AddBindings,
\* ProjectBindings, AppendTable, DotProduct and Reduce ran on the tables, the
\* binding list bs holds no name twice and the names in bs are exactly the
\* names for which HasBinding is true.
C1_BindingsInSync ==
    \A t \in Tables :
        /\ NoDup(Bindings(t))
        /\ \A b \in Names : HasBinding(t, b) <=> b \in SeqSet(Bindings(t))

\* What the claims below speak of: the receiver of the last call, its rows
\* and bindings before the call, and whether the call left it as it was.
Rcv == last.t

RowsBefore == pre.data[Rcv]

TableUnchanged(t) ==
    /\ bs[t] = pre.bs[t]
    /\ mbs[t] = pre.mbs[t]
    /\ data[t] = pre.data[t]

AllCarry(rows, names) == \A i \in 1..Len(rows) : \A b \in names : Carries(rows[i], b)

CfgNames(cfg) == {cfg[i].Binding : i \in 1..Len(cfg)}

\* The positions at which a maximal run of adjacent rows with one composite
\* key starts, and the runs in order, each as <<first, last>>.
RunStarts(rows, cfg) ==
    {i \in 1..Len(rows) : i = 1 \/ groupId(rows[i], cfg) # groupId(rows[i - 1], cfg)}

RunsOf(rows, cfg) ==
    LET starts == RunStarts(rows, cfg)
        nth(k) == CHOOSE i \in starts : Cardinality({j \in starts : j <= i}) = k
    IN  [k \in 1..Cardinality(starts) |->
            <<nth(k), IF k = Cardinality(starts) THEN Len(rows) ELSE nth(k + 1) - 1>>]

\* C2: after Reduce with a SortConfig succeeds on a table with at least one
\* row, the rows are one output row per maximal run of adjacent sorted rows
\* with an identical composite key, in order: the folded ranges are exactly
\* the runs, so every sorted row lies in one folded range and none is
\* skipped.
C2_OneRowPerRun ==
    (last.op = "Reduce" /\ last.res = "ok" /\ last.cfg # <<>> /\ Len(RowsBefore) >= 1)
        => /\ last.ranges = RunsOf(last.mid, last.cfg)
           /\ Len(data[Rcv]) = Len(RunsOf(last.mid, last.cfg))

\* The value the claim gives a pair with an accumulator over the rows rng:
\* the accumulator reset and then fed the cells at the pair's input binding.
RECURSIVE SumCells(_, _)
SumCells(rng, b) == IF rng = <<>> THEN 0 ELSE rng[1][b].num + SumCells(Tail(rng), b)

ClaimFold(p, rng) ==
    IF p.Acc = "sum" THEN acc["sum"].initialState + SumCells(rng, p.InAlias)
    ELSE IF p.Acc = "count" THEN Len(rng)
    ELSE Cardinality({CellString(rng[i][p.InAlias]) : i \in 1..Len(rng)})

ClaimRow(pairs, rng) ==
    [o \in {p.OutAlias : p \in pairs} |->
        LET p == CHOOSE q \in pairs : q.OutAlias = o
        IN  IF p.Acc = NoAcc THEN rng[1][p.InAlias] ELSE CellInt(ClaimFold(p, rng))]

\* A reduction the claim covers: the SortConfig is not empty, the pairs cover
\* the bindings of the table exactly, every row carries the sort keys and
\* the input bindings, and a sum is over int64 literals.
ReduceWellFormed ==
    LET pairs == SeqSet(last.aaps)
    IN  /\ last.op = "Reduce"
        /\ last.cfg # <<>>
        /\ Len(RowsBefore) >= 1
        /\ InAliases(pairs) = SeqSet(pre.bs[Rcv])
        /\ InAliases(pairs) = pre.mbs[Rcv]
        /\ AllCarry(RowsBefore, CfgNames(last.cfg) \cup InAliases(pairs))
        /\ \A p \in pairs : p.Acc = "sum" =>
              \A i \in 1..Len(RowsBefore) : IsIntLiteral(RowsBefore[i][p.InAlias])

\* C3: the output row Reduce builds for a group carries, for every pair with
\* an accumulator, the value of that accumulator reset and fed the group's
\* cells and, for every pair without one, the cell of the group's first row;
\* so (g=1,val=3),(g=1,val=4),(g=2,val=5) under [(g,asc)] with g->g and
\* val->total (integer sum from 0) gives (g=1,total=7),(g=2,total=5).
C3_GroupRowContent ==
    ReduceWellFormed
        => /\ last.res = "ok"
           /\ \A k \in 1..Len(last.ranges) :
                data[Rcv][k] =
                    ClaimRow(SeqSet(last.aaps), SubSeq(last.mid, last.ranges[k][1], last.ranges[k][2]))

\* C4: whenever Reduce returns an error, the binding list, the membership
\* set and the rows of the table, in content and order, are what they were
\* before the call.
C4_ErrorLeavesTable ==
    (last.op = "Reduce" /\ last.res = "error") => TableUnchanged(Rcv)

Occurrences(rows, r) == Cardinality({i \in 1..Len(rows) : rows[i] = r})

IsPermutation(r1, r2) ==
    /\ Len(r1) = Len(r2)
    /\ \A r \in SeqSet(r1) \cup SeqSet(r2) : Occurrences(r1, r) = Occurrences(r2, r)

\* C5: after Sort with a non-empty SortConfig on a table whose rows all carry
\* every binding the SortConfig names, the rows are a permutation of the rows
\* before and no row compares strictly before a row placed ahead of it.
C5_SortOrders ==
    (last.op = "Sort" /\ last.cfg # <<>> /\ AllCarry(RowsBefore, CfgNames(last.cfg)))
        => /\ last.res = "ok"
           /\ IsPermutation(data[Rcv], RowsBefore)
           /\ \A i, j \in 1..Len(data[Rcv]) :
                i < j => rowLess(data[Rcv][j], data[Rcv][i], last.cfg) # "lt"

\* C6: when Sort or Reduce runs with a SortConfig naming a binding that a row
\* being compared does not carry, the caller gets an error back; the process
\* is not aborted. With two rows or more every row is compared on the first
\* key.
C6_MissingBindingIsError ==
    ( /\ last.op \in {"Sort", "Reduce"}
      /\ last.cfg # <<>>
      /\ Len(RowsBefore) >= 2
      /\ ~AllCarry(RowsBefore, {last.cfg[1].Binding}) )
        => last.res = "error"

\* C7: ProjectBindings with a name that is no binding of the table, whether
\* or not the table holds rows, returns an error and leaves the binding list,
\* the membership set and the rows unchanged.
C7_ProjectUnknownFails ==
    (last.op = "ProjectBindings" /\ ~(SeqSet(last.names) \subseteq pre.mbs[Rcv]))
        => /\ last.res = "error"
           /\ TableUnchanged(Rcv)

\* The names of s that are in S, in the order of s.
RECURSIVE Restrict(_, _)
Restrict(s, S) ==
    IF s = <<>> THEN <<>>
    ELSE IF Head(s) \in S THEN <<Head(s)>> \o Restrict(Tail(s), S)
    ELSE Restrict(Tail(s), S)

\* C8: for any table and any subset S of its bindings, handed over as the
\* list of its names in the table's order, after ProjectBindings the list
\* Bindings() is exactly the names of S in that order, HasBinding holds of
\* exactly the names of S, and the rows are unchanged.
C8_ProjectKeepsSubset ==
    ( /\ last.op = "ProjectBindings"
      /\ SeqSet(last.names) \subseteq SeqSet(pre.bs[Rcv])
      /\ last.names = Restrict(pre.bs[Rcv], SeqSet(last.names)) )
        => /\ last.res = "ok"
           /\ Bindings(Rcv) = last.names
           /\ \A b \in Names : HasBinding(Rcv, b) <=> b \in SeqSet(last.names)
           /\ data[Rcv] = RowsBefore

\* C9: DotProduct with another table fails and changes neither table when
\* the binding sets overlap; when they are disjoint it succeeds, the
\* receiver's binding set is the union, other is unchanged, and the rows are
\* the n1 x n2 merges, the row at (i-1)*n2 + j holding every cell of receiver
\* row i and of other row j.
C9_DotProduct ==
    (last.op = "DotProduct" /\ last.other # Rcv)
        => LET o  == last.other
               d1 == RowsBefore
               d2 == pre.data[o]
           IN  IF pre.mbs[Rcv] \cap pre.mbs[o] # {}
               THEN last.res = "error" /\ TableUnchanged(Rcv) /\ TableUnchanged(o)
               ELSE /\ last.res = "ok"
                    /\ TableUnchanged(o)
                    /\ mbs[Rcv] = pre.mbs[Rcv] \cup pre.mbs[o]
                    /\ SeqSet(bs[Rcv]) = pre.mbs[Rcv] \cup pre.mbs[o]
                    /\ Len(data[Rcv]) = Len(d1) * Len(d2)
                    /\ \A i \in 1..Len(d1), j \in 1..Len(d2) :
                         LET r == data[Rcv][(i - 1) * Len(d2) + j]
                         IN  /\ DOMAIN r = (DOMAIN d1[i]) \cup (DOMAIN d2[j])
                             /\ \A k \in DOMAIN d1[i] : r[k] = d1[i][k]
                             /\ \A k \in DOMAIN d2[j] : r[k] = d2[j][k]

\* C10: Limit(n) keeps exactly the first n rows when 0 <= n < row count,
\* changes nothing when n >= row count, and is rejected as an error, with
\* the rows unchanged, when n < 0; the bindings are unchanged in every case.
C10_Limit ==
    last.op = "Limit"
        => /\ bs[Rcv] = pre.bs[Rcv]
           /\ mbs[Rcv] = pre.mbs[Rcv]
           /\ (0 <= last.n /\ last.n < Len(RowsBefore))
                => (last.res = "ok" /\ data[Rcv] = SubSeq(RowsBefore, 1, last.n))
           /\ last.n >= Len(RowsBefore) => (last.res = "ok" /\ data[Rcv] = RowsBefore)
           /\ last.n < 0 => (last.res = "error" /\ data[Rcv] = RowsBefore)

\* The int64 values among the literals vs, summed.
RECURSIVE SumOf(_)
SumOf(vs) ==
    IF vs = <<>> THEN 0
    ELSE (IF IsIntLiteral(vs[1].cell) THEN vs[1].cell.num ELSE 0) + SumOf(Tail(vs))

\* C11: the value an Accumulate call returns depends only on the values
\* accumulated since the last Reset, or since construction: count returns
\* the number of calls since then, count-distinct the number of distinct
\* string renderings since then, and the integer sum the start the caller
\* gave plus the sum of the values since then; a literal that is no int64
\* gives an error and leaves the state of the sum as it was.
C11_SinceReset ==
    last.op = "Accumulate"
        => LET h == fed.since[last.id]
               v == h[Len(h)]
           IN  IF last.id = "count"
               THEN last.res = "ok" /\ last.ret = Len(h)
               ELSE IF last.id = "distinct"
               THEN /\ last.res = "ok"
                    /\ last.ret = Cardinality({Sprintf(h[i]) : i \in 1..Len(h)})
               ELSE /\ acc["sum"].state = acc["sum"].initialState + SumOf(h)
                    /\ IF IsIntLiteral(v.cell)
                       THEN /\ last.res = "ok"
                            /\ last.ret = acc["sum"].initialState + SumOf(h)
                       ELSE last.res = "error"

\* Count-distinct is fed x, y, x, z after a Reset that followed earlier
\* values, and returns 3 on z.
C11_Witness ==
    /\ last.op = "Accumulate"
    /\ last.id = "distinct"
    /\ fed.again["distinct"]
    /\ fed.since["distinct"] =
          << CellValue(Row1("g", CellS(StrA)), "g"), CellValue(Row1("g", CellS(StrB)), "g"),
             CellValue(Row1("g", CellS(StrA)), "g"), CellValue(Row1("g", CellS(StrAB)), "g") >>
    /\ last.ret = 3

\* The composite keys of rows under cfg.
KeysOf(rows, cfg) == {groupId(rows[i], cfg) : i \in 1..Len(rows)}

\* C12: after Reduce succeeds on a table with at least one row, the rows
\* with one composite key were all folded into one output row: the sort
\* inside Reduce leaves rows with equal keys next to each other, and there
\* are as many output rows as distinct composite keys among the input rows.
C12_OneRowPerKey ==
    ( /\ last.op = "Reduce"
      /\ last.res = "ok"
      /\ last.cfg # <<>>
      /\ Len(RowsBefore) >= 1 )
        => /\ \A i, j \in 1..Len(last.mid) :
                (i < j /\ groupId(last.mid[i], last.cfg) = groupId(last.mid[j], last.cfg))
                    => groupId(last.mid[i + 1], last.cfg) = groupId(last.mid[i], last.cfg)
           /\ Len(data[Rcv]) = Cardinality(KeysOf(RowsBefore, last.cfg))

====
